---- MODULE Spec2Model ----
(***************************************************************************)
(* ShapeNetCore dataset (pytorch3d/datasets/shapenet/shapenet_core.py).    *)
(*                                                                         *)
(* The state is the dataset object under construction and in use, the      *)
(* constructor's locals, the warnings emitted so far, and the directory    *)
(* tree under data_dir.  The constructor is modelled statement by          *)
(* statement (one action per statement group or loop iteration); the       *)
(* iteration order of a Python set and of os.listdir is arbitrary, so each *)
(* loop iteration picks any remaining element.  The directory tree does    *)
(* not change during a behaviour; a mesh file that became unreadable after *)
(* construction is covered by the loader's nondeterministic failure.       *)
(***************************************************************************)
EXTENDS Integers, Sequences, FiniteSets, TLC

VARIABLES disk, pc, error, args, data_dir, model_dir, dict_loaded,
          synset_dict, synset_inv, synset_set, pos, todo, cur, entries,
          synset_ids, model_ids, warnings, reads, len_result, result

vars == <<disk, pc, error, args, data_dir, model_dir, dict_loaded,
          synset_dict, synset_inv, synset_set, pos, todo, cur, entries,
          synset_ids, model_ids, warnings, reads, len_result, result>>

----------------------------------------------------------------------------
(* Bounds *)

\* number of model directories under data_dir, all categories together
MaxModels == 2

\* longest synsets argument passed to the constructor
MaxSynsets == 2

----------------------------------------------------------------------------
(* Program constants and inputs *)

\* the data_dir argument (one path component naming the dataset root)
DataDir == "ShapeNetCore"

\* synset offsets named in the constructor's documentation
Boat == "02858304"
Watercraft == "04530566"

\* shapenet_synset_dict_v1.json restricted to two of its categories
SynsetDictV1 == (Boat :> "boat") @@ (Watercraft :> "watercraft")

\* shapenet_synset_dict_v2.json: version 2 has no 02858304 (boat)
SynsetDictV2 == (Watercraft :> "watercraft")

\* json.load of 'shapenet_synset_dict_v%d.json' % version
SynsetDictFile(version) == IF version = 1 THEN SynsetDictV1 ELSE SynsetDictV2

EmptyDict == [c \in {} |-> ""]

\* 'model.obj' if version == 1 else 'models/model_normalized.obj',
\* as a sequence of path components
ModelObj == <<"model.obj">>
ModelNormalizedObj == <<"models", "model_normalized.obj">>

ModelDirOfMut(version) == IF version = 1 THEN ModelNormalizedObj ELSE ModelObj

ModelDirOf(version) == IF version = 1 THEN ModelObj ELSE ModelNormalizedObj

\* names that may occur as entries of data_dir
CategoryNames == {Boat, Watercraft}

\* names that may occur as entries of a category directory
ModelNames == {"1a6ad7ab", "2c3f9d01"}

\* what a model directory holds: nothing there, or the mesh of one version
ModelKinds == {"absent", "v1mesh", "v2mesh"}

\* identifiers a caller may pass in synsets: offsets and labels
Identifiers == {Boat, Watercraft, "boat", "watercraft"}

RECURSIVE SeqsUpTo(_, _)
SeqsUpTo(S, n) ==
    IF n = 0 THEN {<<>>}
    ELSE LET shorter == SeqsUpTo(S, n - 1)
         IN shorter \cup {Append(q, x) : q \in {r \in shorter : Len(r) = n - 1}, x \in S}

SynsetLists == SeqsUpTo(Identifiers, MaxSynsets)

Versions == {0, 1, 2, 3}

----------------------------------------------------------------------------
(* The directory tree under data_dir *)

Disks ==
    {d \in [top : [CategoryNames -> {"absent", "file", "dir"}],
            sub : [CategoryNames -> [ModelNames -> ModelKinds]]] :
        /\ \A n \in CategoryNames :
              d.top[n] # "dir" => \A m \in ModelNames : d.sub[n][m] = "absent"
        /\ Cardinality({nm \in CategoryNames \X ModelNames :
                            d.sub[nm[1]][nm[2]] # "absent"}) <= MaxModels}

\* os.path.join of relative paths, on sequences of path components
PathJoin(a, b) == a \o b

MeshOf(kind) == IF kind = "v1mesh" THEN ModelObj ELSE ModelNormalizedObj

\* path.isdir(p)
IsDir(p) ==
    /\ Len(p) >= 1
    /\ p[1] = DataDir
    /\ Len(p) >= 2 => p[2] \in CategoryNames /\ disk.top[p[2]] = "dir"
    /\ Len(p) >= 3 => p[3] \in ModelNames /\ disk.sub[p[2]][p[3]] # "absent"
    /\ Len(p) >= 4 =>
          /\ Len(p) = 4
          /\ disk.sub[p[2]][p[3]] = "v2mesh"
          /\ p[4] = ModelNormalizedObj[1]

\* path.exists(p)
Exists(p) ==
    \/ IsDir(p)
    \/ /\ Len(p) = 2
       /\ p[1] = DataDir
       /\ p[2] \in CategoryNames
       /\ disk.top[p[2]] = "file"
    \/ /\ Len(p) >= 4
       /\ IsDir(SubSeq(p, 1, 3))
       /\ disk.sub[p[2]][p[3]] \in {"v1mesh", "v2mesh"}
       /\ SubSeq(p, 4, Len(p)) = MeshOf(disk.sub[p[2]][p[3]])

\* os.listdir(p), as the set of names (the order is arbitrary)
ListDir(p) ==
    IF Len(p) = 1
    THEN {n \in CategoryNames : disk.top[n] # "absent"}
    ELSE {m \in ModelNames : disk.sub[p[2]][m] # "absent"}

----------------------------------------------------------------------------
(* Helpers of the constructor and of __getitem__ *)

\* {label: offset for offset, label in self.synset_dict.items()}
InverseDictMut(d) ==
    [l \in {d[c] : c \in DOMAIN d} |->
        IF \E c \in DOMAIN d : d[c] # l
        THEN CHOOSE c \in DOMAIN d : d[c] # l
        ELSE CHOOSE c \in DOMAIN d : d[c] = l]

InverseDict(d) ==
    [l \in {d[c] : c \in DOMAIN d} |-> CHOOSE c \in DOMAIN d : d[c] = l]

\* outcome of one iteration of "for synset in synsets": the offset added to
\* synset_set, or a warning
ResolveOneMut(synset, d, inv) ==
    IF synset \in DOMAIN d
    THEN [add |-> {synset}, warn |-> FALSE]
    ELSE IF synset \in DOMAIN inv /\ IsDir(PathJoin(<<DataDir>>, <<inv[synset]>>))
    THEN [add |-> {inv[synset]}, warn |-> FALSE]
    ELSE [add |-> {}, warn |-> TRUE]

ResolveOne(synset, d, inv) ==
    IF synset \in DOMAIN d /\ IsDir(PathJoin(<<DataDir>>, <<synset>>))
    THEN [add |-> {synset}, warn |-> FALSE]
    ELSE IF synset \in DOMAIN inv /\ IsDir(PathJoin(<<DataDir>>, <<inv[synset]>>))
    THEN [add |-> {inv[synset]}, warn |-> FALSE]
    ELSE [add |-> {}, warn |-> TRUE]

\* paths probed by that iteration ("and" evaluates isdir only after the
\* membership test succeeded)
ResolveOneReads(synset, d, inv) ==
    (IF synset \in DOMAIN d THEN {PathJoin(<<DataDir>>, <<synset>>)} ELSE {})
    \cup
    (IF /\ ~(synset \in DOMAIN d /\ IsDir(PathJoin(<<DataDir>>, <<synset>>)))
        /\ synset \in DOMAIN inv
     THEN {PathJoin(<<DataDir>>, <<inv[synset]>>)} ELSE {})

\* {synset for synset in os.listdir(data_dir) if path.isdir(...)}
ListCategories(root) ==
    {synset \in ListDir(<<root>>) : IsDir(PathJoin(<<root>>, <<synset>>))}

\* formatting of the "unknown category" message, which looks the synset up
\* in self.synset_dict: the lookup raises KeyError for exactly the synsets
\* the message is built for
UnknownSynsetMsgMut(synset, d, version, root) ==
    [raised |-> FALSE, msg |-> <<"unknown synset", synset, "", version, root>>]

UnknownSynsetMsg(synset, d, version, root) ==
    IF synset \in DOMAIN d
    THEN [raised |-> FALSE, msg |-> <<"unknown synset", synset, d[synset], version, root>>]
    ELSE [raised |-> TRUE, msg |-> <<>>]

\* path.join(data_dir, synset, model, self.model_dir)
ModelPathMut(root, synset, model, mdir) ==
    PathJoin(PathJoin(<<root>>, <<synset>>), <<model>>)

ModelPath(root, synset, model, mdir) ==
    PathJoin(PathJoin(PathJoin(<<root>>, <<synset>>), <<model>>), mdir)

\* subscript of a Python list: negative indices count from the end
PyIndexMut(s, idx) ==
    IF idx >= 0 /\ idx <= Len(s)
    THEN [ok |-> TRUE, val |-> IF idx < Len(s) THEN s[idx + 1] ELSE ""]
    ELSE IF idx < 0 /\ idx >= -Len(s)
    THEN [ok |-> TRUE, val |-> s[Len(s) + idx + 1]]
    ELSE [ok |-> FALSE, val |-> ""]

PyIndex(s, idx) ==
    IF idx >= 0 /\ idx < Len(s)
    THEN [ok |-> TRUE, val |-> s[idx + 1]]
    ELSE IF idx < 0 /\ idx >= -Len(s)
    THEN [ok |-> TRUE, val |-> s[Len(s) + idx + 1]]
    ELSE [ok |-> FALSE, val |-> ""]

\* load_obj(model_path): the geometry stored in the file at that path
LoadObj(p) == [verts |-> <<"verts">> \o p, faces |-> <<"faces">> \o p]

NoResult ==
    [status |-> "none", idx |-> 0, synset_id |-> "", model_id |-> "",
     verts |-> <<>>, faces |-> <<>>, label |-> ""]

Raised(exc, idx) == [NoResult EXCEPT !.status = exc, !.idx = idx]

\* the body of __getitem__
GetItemResultMut(idx, loads) ==
    LET s == PyIndex(synset_ids, idx)
        m == PyIndex(model_ids, idx)
    IN IF ~s.ok \/ ~m.ok THEN Raised("IndexError", idx)
       ELSE IF ~loads THEN Raised("LoaderError", idx)
       ELSE IF s.val \notin DOMAIN synset_dict THEN Raised("KeyError", idx)
       ELSE LET geom == LoadObj(ModelPath(data_dir, m.val, s.val, model_dir))
            IN [status |-> "ok", idx |-> idx,
                synset_id |-> s.val, model_id |-> m.val,
                verts |-> geom.verts, faces |-> geom.faces,
                label |-> synset_dict[s.val]]

GetItemResult(idx, loads) ==
    LET s == PyIndex(synset_ids, idx)
        m == PyIndex(model_ids, idx)
    IN IF ~s.ok \/ ~m.ok THEN Raised("IndexError", idx)
       ELSE IF ~loads THEN Raised("LoaderError", idx)
       ELSE IF s.val \notin DOMAIN synset_dict THEN Raised("KeyError", idx)
       ELSE LET geom == LoadObj(ModelPath(data_dir, s.val, m.val, model_dir))
            IN [status |-> "ok", idx |-> idx,
                synset_id |-> s.val, model_id |-> m.val,
                verts |-> geom.verts, faces |-> geom.faces,
                label |-> synset_dict[s.val]]

----------------------------------------------------------------------------
(* Initial state: no dataset object yet, any directory tree *)

NoArgs == [synsets_none |-> TRUE, synsets |-> <<>>, version |-> 0]

Init ==
    /\ disk \in Disks
    /\ pc = "new"
    /\ error = "none"
    /\ args = NoArgs
    /\ data_dir = ""
    /\ model_dir = <<>>
    /\ dict_loaded = FALSE
    /\ synset_dict = EmptyDict
    /\ synset_inv = EmptyDict
    /\ synset_set = {}
    /\ pos = 1
    /\ todo = {}
    /\ cur = ""
    /\ entries = {}
    /\ synset_ids = <<>>
    /\ model_ids = <<>>
    /\ warnings = <<>>
    /\ reads = {}
    /\ len_result = -1
    /\ result = NoResult

----------------------------------------------------------------------------
(* __init__ *)

\* self.data_dir = data_dir; the version check; self.model_dir
NewDataset(s_none, s, version) ==
    /\ pc = "new"
    /\ args' = [synsets_none |-> s_none, synsets |-> s, version |-> version]
    /\ data_dir' = DataDir
    /\ IF version \notin {1, 2}
       THEN /\ pc' = "failed"
            /\ error' = "ValueError"
            /\ UNCHANGED model_dir
       ELSE /\ pc' = "load_dict"
            /\ model_dir' = ModelDirOf(version)
            /\ UNCHANGED error
    /\ UNCHANGED <<disk, dict_loaded, synset_dict, synset_inv, synset_set, pos,
                   todo, cur, entries, synset_ids, model_ids, warnings, reads,
                   len_result, result>>

\* json.load of the dictionary, synset_inv, and the branch on synsets
LoadDict ==
    /\ pc = "load_dict"
    /\ synset_dict' = SynsetDictFile(args.version)
    /\ dict_loaded' = TRUE
    /\ synset_inv' = InverseDict(synset_dict')
    /\ synset_set' = {}
    /\ pos' = 1
    /\ pc' = IF args.synsets_none THEN "list_all"
             ELSE IF Len(args.synsets) = 0 THEN "index_init"
             ELSE "req_loop"
    /\ UNCHANGED <<disk, error, args, data_dir, model_dir, todo, cur, entries,
                   synset_ids, model_ids, warnings, reads, len_result, result>>

\* one iteration of "for synset in synsets"
ResolveRequested ==
    /\ pc = "req_loop"
    /\ LET synset == args.synsets[pos]
           r == ResolveOne(synset, synset_dict, synset_inv)
       IN /\ synset_set' = synset_set \cup r.add
          /\ warnings' = IF r.warn
                         THEN Append(warnings, <<"unresolved synset", synset, data_dir>>)
                         ELSE warnings
          /\ reads' = reads \cup ResolveOneReads(synset, synset_dict, synset_inv)
    /\ pos' = pos + 1
    /\ pc' = IF pos' > Len(args.synsets) THEN "index_init" ELSE "req_loop"
    /\ UNCHANGED <<disk, error, args, data_dir, model_dir, dict_loaded,
                   synset_dict, synset_inv, todo, cur, entries, synset_ids,
                   model_ids, len_result, result>>

\* the set comprehension over os.listdir(data_dir)
ListAll ==
    /\ pc = "list_all"
    /\ synset_set' = ListCategories(data_dir)
    /\ reads' = reads \cup {<<data_dir>>}
                      \cup {PathJoin(<<data_dir>>, <<n>>) : n \in ListDir(<<data_dir>>)}
    /\ todo' = synset_set'
    /\ pc' = IF synset_set' = {} THEN "index_init" ELSE "warn_loop"
    /\ UNCHANGED <<disk, error, args, data_dir, model_dir, dict_loaded,
                   synset_dict, synset_inv, pos, cur, entries, synset_ids,
                   model_ids, warnings, len_result, result>>

\* one iteration of "for synset in synset_set" that checks the dictionary
WarnUnknown ==
    /\ pc = "warn_loop"
    /\ \E synset \in todo :
          IF synset \notin DOMAIN synset_dict
          THEN LET m == UnknownSynsetMsg(synset, synset_dict, args.version, data_dir)
               IN IF m.raised
                  THEN /\ pc' = "failed"
                       /\ error' = "KeyError"
                       /\ todo' = {}
                       /\ UNCHANGED warnings
                  ELSE /\ warnings' = Append(warnings, m.msg)
                       /\ todo' = todo \ {synset}
                       /\ pc' = IF todo' = {} THEN "index_init" ELSE "warn_loop"
                       /\ UNCHANGED error
          ELSE /\ todo' = todo \ {synset}
               /\ pc' = IF todo' = {} THEN "index_init" ELSE "warn_loop"
               /\ UNCHANGED <<error, warnings>>
    /\ UNCHANGED <<disk, args, data_dir, model_dir, dict_loaded, synset_dict,
                   synset_inv, synset_set, pos, cur, entries, synset_ids,
                   model_ids, reads, len_result, result>>

\* self.synset_ids = []; self.model_ids = []
StartIndex ==
    /\ pc = "index_init"
    /\ synset_ids' = <<>>
    /\ model_ids' = <<>>
    /\ todo' = synset_set
    /\ pc' = IF synset_set = {} THEN "ready" ELSE "index_cat"
    /\ UNCHANGED <<disk, error, args, data_dir, model_dir, dict_loaded,
                   synset_dict, synset_inv, synset_set, pos, cur, entries,
                   warnings, reads, len_result, result>>

\* "for synset in synset_set": os.listdir(path.join(data_dir, synset))
IndexSynset ==
    /\ pc = "index_cat"
    /\ \E synset \in todo :
          /\ todo' = todo \ {synset}
          /\ reads' = reads \cup {PathJoin(<<data_dir>>, <<synset>>)}
          /\ IF ~IsDir(PathJoin(<<data_dir>>, <<synset>>))
             THEN /\ pc' = "failed"
                  /\ error' = "OSError"
                  /\ UNCHANGED <<cur, entries>>
             ELSE /\ entries' = ListDir(PathJoin(<<data_dir>>, <<synset>>))
                  /\ cur' = IF entries' = {} THEN "" ELSE synset
                  /\ pc' = IF entries' # {} THEN "index_model"
                           ELSE IF todo' = {} THEN "ready" ELSE "index_cat"
                  /\ UNCHANGED error
    /\ UNCHANGED <<disk, args, data_dir, model_dir, dict_loaded, synset_dict,
                   synset_inv, synset_set, pos, synset_ids, model_ids, warnings,
                   len_result, result>>

\* one iteration of "for model in os.listdir(...)"
IndexModel ==
    /\ pc = "index_model"
    /\ \E model \in entries :
          LET p == ModelPath(data_dir, cur, model, model_dir)
          IN /\ entries' = entries \ {model}
             /\ reads' = reads \cup {p}
             /\ IF ~Exists(p)
                THEN /\ warnings' = Append(warnings, <<"no object file", model, cur>>)
                     /\ UNCHANGED <<synset_ids, model_ids>>
                ELSE /\ synset_ids' = Append(synset_ids, cur)
                     /\ model_ids' = Append(model_ids, model)
                     /\ UNCHANGED warnings
             /\ pc' = IF entries' # {} THEN "index_model"
                      ELSE IF todo = {} THEN "ready" ELSE "index_cat"
             /\ cur' = IF entries' # {} THEN cur ELSE ""
    /\ UNCHANGED <<disk, error, args, data_dir, model_dir, dict_loaded,
                   synset_dict, synset_inv, synset_set, pos, todo, len_result,
                   result>>

----------------------------------------------------------------------------
(* __len__ and __getitem__ *)

LenDunder ==
    /\ pc = "ready"
    /\ len_result' = Len(model_ids)
    /\ UNCHANGED <<disk, pc, error, args, data_dir, model_dir, dict_loaded,
                   synset_dict, synset_inv, synset_set, pos, todo, cur, entries,
                   synset_ids, model_ids, warnings, reads, result>>

GetItemMut(idx, loads) ==
    /\ pc = "ready"
    /\ result' = GetItemResult(idx, loads)
    /\ synset_ids' = IF result'.status = "ok" THEN Tail(synset_ids) ELSE synset_ids
    /\ model_ids' = IF result'.status = "ok" THEN Tail(model_ids) ELSE model_ids
    /\ UNCHANGED <<disk, pc, error, args, data_dir, model_dir, dict_loaded,
                   synset_dict, synset_inv, synset_set, pos, todo, cur, entries,
                   warnings, reads, len_result>>

GetItem(idx, loads) ==
    /\ pc = "ready"
    /\ result' = GetItemResult(idx, loads)
    /\ UNCHANGED <<disk, pc, error, args, data_dir, model_dir, dict_loaded,
                   synset_dict, synset_inv, synset_set, pos, todo, cur, entries,
                   synset_ids, model_ids, warnings, reads, len_result>>

----------------------------------------------------------------------------

Next ==
    \/ \E s_none \in BOOLEAN, s \in SynsetLists, version \in Versions :
          /\ s_none => s = <<>>
          /\ NewDataset(s_none, s, version)
    \/ LoadDict
    \/ ResolveRequested
    \/ ListAll
    \/ WarnUnknown
    \/ StartIndex
    \/ IndexSynset
    \/ IndexModel
    \/ LenDunder
    \/ \E idx \in (-(Len(model_ids) + 1))..Len(model_ids), loads \in BOOLEAN :
          GetItem(idx, loads)

Spec == Init /\ [][Next]_vars

----------------------------------------------------------------------------
(* Vocabulary of the properties *)

\* N, the length of the Index
IndexSize == Len(model_ids)

\* the (category, model) pairs of the Index
IndexPairs == {<<synset_ids[i], model_ids[i]>> : i \in 1..Len(synset_ids)}

\* the immediate subdirectories of data_dir
CategoryDirs == {n \in CategoryNames : disk.top[n] = "dir"}

\* the mesh file of model m of category n exists for the given version
HasMesh(n, m, version) ==
    disk.sub[n][m] = (IF version = 1 THEN "v1mesh" ELSE "v2mesh")

\* the models of category n the Index has to hold
IndexableModels(n, version) == {m \in ModelNames : HasMesh(n, m, version)}

MeshFileName(version) ==
    IF version = 1 THEN <<"model.obj">> ELSE <<"models", "model_normalized.obj">>

\* a requested identifier that is a code or a label of the dictionary and
\* whose category directory exists
ValidRequest(id) ==
    \E c \in DOMAIN synset_dict :
        (id = c \/ id = synset_dict[c]) /\ c \in CategoryDirs

CanonicalCode(id) ==
    CHOOSE c \in DOMAIN synset_dict : id = c \/ id = synset_dict[c]

ConstructionOver == pc \in {"ready", "failed"}

----------------------------------------------------------------------------
(* C1 *)

\* C1 (as claimed): with synsets absent and a valid version, construction
\* completes, every subdirectory of data_dir is in the resolved set, a
\* subdirectory unknown to the dictionary only produces a warning, and its
\* models with an existing mesh file are in the Index.
C1_UnknownDirOnlyWarns ==
    (ConstructionOver /\ args.synsets_none /\ args.version \in {1, 2}) =>
        /\ pc = "ready"
        /\ CategoryDirs \subseteq synset_set
        /\ \A n \in CategoryDirs :
              /\ n \notin DOMAIN synset_dict =>
                    \E k \in 1..Len(warnings) :
                        warnings[k][1] = "unknown synset" /\ warnings[k][2] = n
              /\ \A m \in IndexableModels(n, args.version) : <<n, m>> \in IndexPairs

----------------------------------------------------------------------------
(* C2 *)

\* C2 (as claimed): get(i) fails with an out-of-range error for every i
\* outside [0, N), get(-1) included, also when N >= 1.
C2_OutsideRangeFails ==
    (pc = "ready" /\ result.status # "none"
        /\ (result.idx < 0 \/ result.idx >= IndexSize)) =>
        result.status = "IndexError"

\* C2 (amended): get(i) fails with an out-of-range error and returns no
\* Record for every i >= N and every i < -N; for -N <= i < 0 it does not
\* fail with an out-of-range error but addresses entry N + i.
C2_OutsideSignedRangeFails ==
    (pc = "ready" /\ result.status # "none") =>
        /\ (result.idx >= IndexSize \/ result.idx < -IndexSize) =>
              result = [NoResult EXCEPT !.status = "IndexError", !.idx = result.idx]
        /\ (result.idx < 0 /\ result.idx >= -IndexSize) =>
              /\ result.status # "IndexError"
              /\ result.status = "ok" =>
                    /\ result.synset_id = synset_ids[IndexSize + result.idx + 1]
                    /\ result.model_id = model_ids[IndexSize + result.idx + 1]

C2_Witness ==
    /\ pc = "ready"
    /\ IndexSize >= 1
    /\ result.idx = IndexSize
    /\ result.status = "IndexError"

----------------------------------------------------------------------------
(* C3 *)

\* C3: for i in [0, N), a Record returned by get(i) carries categoryOf[i],
\* modelId[i], the dictionary's label of categoryOf[i], and the geometry the
\* loader returns for data_dir/categoryOf[i]/modelId[i]/meshFileName(version).
C3_RecordMatchesIndex ==
    (pc = "ready" /\ result.status = "ok"
        /\ result.idx >= 0 /\ result.idx < IndexSize) =>
        LET i == result.idx + 1
            p == <<DataDir, synset_ids[i], model_ids[i]>> \o MeshFileName(args.version)
        IN /\ result.synset_id = synset_ids[i]
           /\ result.model_id = model_ids[i]
           /\ result.label = SynsetDictFile(args.version)[synset_ids[i]]
           /\ result.verts = LoadObj(p).verts
           /\ result.faces = LoadObj(p).faces

C3_Witness ==
    /\ pc = "ready"
    /\ IndexSize >= 2
    /\ result.status = "ok"
    /\ result.idx = 1
    /\ result.label = "boat"

----------------------------------------------------------------------------
(* C4 *)

\* C4: when every requested identifier is a valid code or a valid label of an
\* existing category directory, the resolved set is the set of their
\* canonical codes, the Index holds exactly the (code, model) pairs of those
\* categories whose mesh file exists, each once, and the size is their count.
C4_ValidRequestsResolveExactly ==
    (pc = "ready" /\ ~args.synsets_none
        /\ \A k \in 1..Len(args.synsets) : ValidRequest(args.synsets[k])) =>
        LET codes == {CanonicalCode(args.synsets[k]) : k \in 1..Len(args.synsets)}
            expected == {<<c, m>> \in codes \X ModelNames : HasMesh(c, m, args.version)}
        IN /\ synset_set = codes
           /\ IndexPairs = expected
           /\ Len(synset_ids) = Cardinality(expected)
           /\ IndexSize = Cardinality(expected)
           /\ len_result # -1 => len_result = Cardinality(expected)

C4_Witness ==
    /\ pc = "ready"
    /\ ~args.synsets_none
    /\ args.synsets = <<"boat", Boat>>
    /\ synset_set = {Boat}
    /\ IndexSize >= 1
    /\ len_result = IndexSize

----------------------------------------------------------------------------
(* C5 *)

\* C5: after a successful construction both index sequences have the same
\* length, every categoryOf[i] is a subdirectory of data_dir and the mesh
\* path of every entry exists; a model without its mesh file is not indexed.
C5_IndexEntriesExist ==
    pc = "ready" =>
        /\ Len(synset_ids) = Len(model_ids)
        /\ \A i \in 1..Len(synset_ids) :
              /\ synset_ids[i] \in CategoryDirs
              /\ model_ids[i] \in ModelNames
              /\ HasMesh(synset_ids[i], model_ids[i], args.version)

C5_Witness ==
    /\ pc = "ready"
    /\ IndexSize >= 1
    /\ \E i \in 1..IndexSize, m \in ModelNames :
          /\ disk.sub[synset_ids[i]][m] # "absent"
          /\ ~HasMesh(synset_ids[i], m, args.version)

----------------------------------------------------------------------------
(* C6 *)

\* C6 (as claimed): construction with a valid version and a readable
\* data_dir always succeeds; nothing aborts it.
C6_ConstructionNeverAborts ==
    (pc # "new" /\ args.version \in {1, 2}) => (pc # "failed" /\ error = "none")

----------------------------------------------------------------------------
(* C7 *)

\* C7: version 1 or 2 loads that version's dictionary and selects model.obj
\* or models/model_normalized.obj; any other version fails with ValueError
\* with no dictionary loaded, no directory read and no index entry created.
C7_VersionSelectsConfiguration ==
    /\ (pc # "new" /\ args.version \notin {1, 2}) =>
          /\ pc = "failed"
          /\ error = "ValueError"
          /\ ~dict_loaded
          /\ DOMAIN synset_dict = {}
          /\ reads = {}
          /\ synset_ids = <<>>
          /\ model_ids = <<>>
    /\ (pc # "new" /\ args.version \in {1, 2}) =>
          /\ error # "ValueError"
          /\ model_dir = MeshFileName(args.version)
          /\ pc # "load_dict" =>
                /\ dict_loaded
                /\ args.version = 1 => synset_dict = SynsetDictV1
                /\ args.version = 2 => synset_dict = SynsetDictV2

C7_Witness ==
    /\ pc = "failed"
    /\ args.version = 3
    /\ error = "ValueError"
    /\ CategoryDirs # {}

----------------------------------------------------------------------------
(* C8 *)

\* C8: each requested identifier is handled in exactly one of three ways:
\* (a) a dictionary code whose directory exists is added; (b) a label that
\* is not a code and whose code has a directory adds that code; (c) anything
\* else adds nothing and emits a warning.  Only dictionary keys are added.
C8_RequestClassifiedStep ==
    /\ pc = "req_loop" =>
          LET id == args.synsets[pos]
              caseA == id \in DOMAIN synset_dict /\ id \in CategoryDirs
              codesB == {c \in DOMAIN synset_dict :
                            id \notin DOMAIN synset_dict /\ synset_dict[c] = id
                               /\ c \in CategoryDirs}
          IN /\ caseA => (synset_set' = synset_set \cup {id} /\ warnings' = warnings)
             /\ (~caseA /\ codesB # {}) =>
                   (synset_set' = synset_set \cup codesB /\ warnings' = warnings)
             /\ (~caseA /\ codesB = {}) =>
                   /\ synset_set' = synset_set
                   /\ Len(warnings') = Len(warnings) + 1
                   /\ warnings'[Len(warnings')][1] = "unresolved synset"
                   /\ warnings'[Len(warnings')][2] = id
    /\ ~args'.synsets_none => synset_set' \subseteq DOMAIN synset_dict'

C8_RequestClassified == [][C8_RequestClassifiedStep]_vars

C8_Witness ==
    /\ pc = "ready"
    /\ ~args.synsets_none
    /\ Len(args.synsets) = 2
    /\ args.synsets[1] \in DOMAIN synset_dict
    /\ args.synsets[1] \notin CategoryDirs
    /\ args.synsets[1] \notin synset_set
    /\ Len(warnings) >= 1
    /\ warnings[1][2] = args.synsets[1]
    /\ synset_set # {}

----------------------------------------------------------------------------
(* C9 *)

\* C9: once constructed, no get(i) and no size query changes the Index, the
\* dictionary, the mesh filename or the reported size, and a get(i) repeated
\* with the same i returns an equal Record.
C9_AccessStep ==
    pc = "ready" =>
        /\ pc' = "ready"
        /\ synset_ids' = synset_ids
        /\ model_ids' = model_ids
        /\ synset_dict' = synset_dict
        /\ model_dir' = model_dir
        /\ (len_result # -1 /\ len_result' # -1) => len_result' = len_result
        /\ (result.status = "ok" /\ result'.status = "ok" /\ result'.idx = result.idx) =>
              result' = result

C9_AccessLeavesIndexAlone == [][C9_AccessStep]_vars

C9_Witness ==
    /\ pc = "ready"
    /\ IndexSize >= 2
    /\ result.status = "ok"
    /\ result.idx = 0
    /\ len_result = IndexSize

----------------------------------------------------------------------------
(* C10 *)

\* C10: in every constructed dataset each category code of the Index is a
\* key of the dictionary, so for in-range i get(i) either returns a Record or
\* fails in the mesh loader.
C10_IndexedCodesInDictionary ==
    pc = "ready" =>
        /\ \A i \in 1..Len(synset_ids) : synset_ids[i] \in DOMAIN synset_dict
        /\ (result.status # "none" /\ result.idx >= 0 /\ result.idx < IndexSize) =>
              result.status \in {"ok", "LoaderError"}

C10_Witness ==
    /\ pc = "ready"
    /\ args.synsets_none
    /\ args.version = 2
    /\ IndexSize >= 1
    /\ result.status = "LoaderError"
    /\ result.idx = 0

====
